---- MODULE Spec2Model ----
(***************************************************************************)
(* State-machine model of the SIRENE Bronze/Silver pipeline.               *)
(*                                                                         *)
(* One behaviour follows ONE dataset (chosen in Init): its registry table, *)
(* its Bronze export file and its Silver snapshot file.  Text values are   *)
(* tuples of one-character strings so that the regular expressions and the *)
(* substring/strip operations of the code can be computed, not assumed.    *)
(* Timestamps are whole seconds: the code formats ingested_at as the fixed *)
(* width text "%Y-%m-%d %H:%M:%S", whose text order is the time order.     *)
(***************************************************************************)
EXTENDS Integers, Sequences, FiniteSets, TLC

VARIABLES dataset_name, clock, registry, bronze_file, silver_file, calls,
          bronze_calls, last, run, silver_dir, gold, conc

vars == <<dataset_name, clock, registry, bronze_file, silver_file, calls,
          bronze_calls, last, run, silver_dir, gold, conc>>

(***************************************************************************)
(* Bounds of the model.                                                    *)
(***************************************************************************)
MaxSrcLen == 2
MaxRows == 3
MaxClock == 2
MaxCalls == 4
MaxBronzeCalls == 2
MaxLimit == 1

(***************************************************************************)
(* Text values.                                                            *)
(***************************************************************************)
NULL == <<"NULL">>

Digits == {"0", "1", "2", "3", "4", "5", "6", "7", "8", "9"}

Whitespace == {" "}

SIRET_A == <<"1","2","3","4","5","6","7","8","9","0","1","2","3","4">>
SIRET_B == <<"9","9","9","9","9","9","9","9","9","9","9","9","9","9">>
SIRET_INVALID == <<"i","n","v","a","l","i","d","_","s","i","r","e","t">>
SIREN_A == <<"1","2","3","4","5","6","7","8","9">>
SIREN_B == <<"9","9","9","9","9","9","9","9","9">>
SIREN_INVALID == <<"1","2","3","4","5">>

CP_75 == <<"7","5","0","0","1">>
CP_69 == <<"6","9","0","0","1">>
CP_SHORT == <<"7","5","0","0">>
CP_PADDED == <<"9","3","1","0","0"," ">>
CP_95 == <<"9","5","0","0","0">>
CP_ALPHA == <<"7","5","A","0","1">>

PME == <<"P","M","E">>
GE == <<"G","E">>
INDETERMINE == <<"I","n","d","é","t","e","r","m","i","n","é">>
NONE_TEXT == <<"N","o","n","e">>

IdfDepartments ==
    {<<"7","5">>, <<"7","7">>, <<"7","8">>, <<"9","1">>,
     <<"9","2">>, <<"9","3">>, <<"9","4">>, <<"9","5">>}

SENTINEL == 0

DatasetNames == {"etablissements", "unites_legales"}

(***************************************************************************)
(* Source rows (the remote Parquet file).  The source is outside the       *)
(* program: keys may be missing, malformed or repeated.                    *)
(***************************************************************************)
Etab(siret, siren, cp) ==
    [siret |-> siret, siren |-> siren, codePostalEtablissement |-> cp]

Unite(siren, cat) == [siren |-> siren, categorieEntreprise |-> cat]

\* establishments: the cases of the postal code and of the linking key
EtabSourceRows ==
    {Etab(SIRET_A, SIREN_A, CP_75), Etab(SIRET_A, SIREN_A, CP_PADDED),
     Etab(SIRET_A, SIREN_B, CP_75), Etab(SIRET_B, SIREN_B, CP_SHORT),
     Etab(SIRET_B, SIREN_B, CP_69)}

\* legal units: the cases of the primary key
UniteSourceRows ==
    {Unite(SIREN_A, PME), Unite(SIREN_A, GE), Unite(SIREN_B, NULL),
     Unite(SIREN_INVALID, PME), Unite(NULL, PME)}

SourceRows(name) ==
    IF name = "etablissements" THEN EtabSourceRows ELSE UniteSourceRows

Sources(name) ==
    UNION {[1..n -> SourceRows(name)] : n \in 0..MaxSrcLen}

(***************************************************************************)
(* Generic sequence helpers.                                               *)
(***************************************************************************)
Range(s) == {s[i] : i \in 1..Len(s)}

Min(a, b) == IF a <= b THEN a ELSE b

SetMax(S) ==
    IF S = {} THEN SENTINEL
    ELSE LET x == CHOOSE y \in S : \A z \in S : z <= y IN x

\* the rows of s at the positions I, in the order of s
RECURSIVE Pick(_, _)
Pick(s, I) ==
    IF s = <<>> THEN <<>>
    ELSE LET rest == Pick(Tail(s), {i - 1 : i \in I \ {1}})
         IN IF 1 \in I THEN <<Head(s)>> \o rest ELSE rest

(***************************************************************************)
(* Bronze: run_ingestion_bronze.                                           *)
(***************************************************************************)
\* pk = "siret" if "etablissement" in dataset_name.lower() else "siren"
PrimaryKey(name) == IF name = "etablissements" THEN "siret" ELSE "siren"

\* SELECT source.*, '<ingested_at>' AS ingested_at
Stamp(r, t) ==
    IF "siret" \in DOMAIN r
    THEN [siret |-> r.siret, siren |-> r.siren,
          codePostalEtablissement |-> r.codePostalEtablissement,
          ingested_at |-> t]
    ELSE [siren |-> r.siren, categorieEntreprise |-> r.categorieEntreprise,
          ingested_at |-> t]

\* ON source.pk = target.pk : SQL equality, never true when a side is NULL
SqlEq(a, b) == a # NULL /\ b # NULL /\ a = b

\* source LEFT JOIN target ON source.pk = target.pk WHERE target.pk IS NULL
AntiJoin(source, target, pk) ==
    SelectSeq(source,
              LAMBDA s : ~ \E i \in 1..Len(target) : SqlEq(s[pk], target[i][pk]))

\* a query without the LIMIT clause
NoLimit(rows, final_limit) == {rows}

\* the results the LIMIT clause may give: no ORDER BY, so any n of the rows
Limited(rows, final_limit) ==
    IF final_limit > 0
    THEN {Pick(rows, I) : I \in {J \in SUBSET (1..Len(rows)) :
                                   Cardinality(J) = Min(final_limit, Len(rows))}}
    ELSE {rows}

StampAll(rows, t) == [i \in 1..Len(rows) |-> Stamp(rows[i], t)]

\* a statement that rebuilds the table from the new rows
InsertReplacing(target, rows) == rows

\* INSERT INTO <dataset_name> SELECT ...: the rows are appended to the table
InsertInto(target, rows) == target \o rows

\* a file on disk: absent, a readable Parquet file, or a partial (unreadable) one
NoFile == [exists |-> FALSE, readable |-> FALSE, rows |-> <<>>]

File(rows) == [exists |-> TRUE, readable |-> TRUE, rows |-> rows]

PartialFile == [exists |-> TRUE, readable |-> FALSE, rows |-> <<>>]

\* what the model remembers of the most recent call (observation only)
NoCall ==
    [op |-> "none", result |-> "none", prev_op |-> "none", prev_result |-> "none",
     source |-> <<>>, final_limit |-> 0, registry_path |-> "", repeat |-> FALSE,
     inserted |-> <<>>, last_date |-> SENTINEL, extracted |-> <<>>,
     cleaned |-> <<>>, merged |-> <<>>, wrote |-> FALSE, stage |-> "none",
     prior |-> NoFile, fault |-> "none", con |-> "none", up_to_date |-> FALSE,
     config |-> [selected_columns |-> "none", idf_departments |-> {}],
     dropped |-> 0]

\* a handler that closes the connection only after the statements succeeded
CloseAfterSuccess(raised) == IF raised THEN "open" ELSE "closed"

\* finally: con.close() -- the state of the connection when the call exits
ConAtExit(raised) == "closed"

\* if row_count == 0: logger.warning("... Table is up to date.")
LogsUpToDate(row_count) == row_count = 0

\* a COPY that exports the rows of this run only
CopyInsertedTo(table, inserted) == File(inserted)

\* COPY <dataset_name> TO '<output_path>' (FORMAT PARQUET, OVERWRITE_OR_IGNORE)
CopyTo(table, inserted) == File(table)

BronzeCall(result, source, final_limit, registry_path, inserted, fault, n) ==
    [NoCall EXCEPT !.op = "bronze", !.result = result,
                   !.fault = fault, !.con = ConAtExit(result = "raise"),
                   !.up_to_date = result = "ok" /\ LogsUpToDate(n),
                   !.prev_op = last.op, !.prev_result = last.result,
                   !.source = source, !.final_limit = final_limit,
                   !.registry_path = registry_path, !.inserted = inserted,
                   !.repeat = /\ last.op = "bronze" /\ last.result = "ok"
                              /\ last.source = source
                              /\ last.final_limit = final_limit
                              /\ last.registry_path = registry_path
                              /\ registry_path = ""]

\* One call run_ingestion_bronze(url, output_path, limit, dataset_name,
\* registry_path).  source is the content of the Parquet file at url; now is
\* the second datetime.now() reads; registry_path "" is the shared registry,
\* "other" a registry holding no table for this dataset; fault is what the
\* environment makes fail: "source" the read of url, "export" the COPY, after
\* the INSERT statement has committed.
RunIngestionBronze(source, now, limit, registry_path, fault) ==
    /\ calls < MaxCalls
    /\ bronze_calls < MaxBronzeCalls
    /\ bronze_calls' = bronze_calls + 1
    /\ LET target == IF registry_path = "" THEN registry ELSE <<>>
           pk == PrimaryKey(dataset_name)
           ingested_at == now
           final_limit == limit
       IN \E rows \in Limited(AntiJoin(source, target, pk), final_limit) :
            LET inserted == StampAll(rows, ingested_at)
                table == InsertInto(target, inserted)
            IN /\ Len(table) <= MaxRows
               /\ IF fault = "source"
                  THEN /\ UNCHANGED <<registry, bronze_file>>
                       /\ last' = BronzeCall("raise", <<>>, 0, "", <<>>,
                                              fault, 0)
                  ELSE /\ registry' = IF registry_path = "" THEN table
                                                             ELSE registry
                       /\ bronze_file' = IF fault = "export" THEN bronze_file
                                          ELSE CopyTo(table, inserted)
                       /\ last' = BronzeCall(
                              IF fault = "export" THEN "raise" ELSE "ok",
                              source, final_limit, registry_path, inserted,
                              fault, Len(table))
    /\ calls' = calls + 1
    /\ clock' = now
    /\ UNCHANGED <<dataset_name, silver_file, run, silver_dir, gold, conc>>

(***************************************************************************)
(* Watermark: get_last_ingested_date.                                      *)
(***************************************************************************)
\* a missing ingested_at value (SQL NULL, pandas NaT)
NaT == -1

\* SELECT MAX(ingested_at): missing values are ignored; no value gives None,
\* which "last_date if last_date else datetime(1900, 1, 1)" turns into the
\* sentinel
MaxIngestedAt(rows) ==
    SetMax({rows[i].ingested_at : i \in 1..Len(rows)} \ {NaT})

\* how a step of the function ends: with a value or with an exception
Returned(v) == [raised |-> FALSE, value |-> v]

Raised == [raised |-> TRUE, value |-> SENTINEL]

\* the try body: read_parquet raises on a file that is not a Parquet file,
\* and the query raises when the file has no ingested_at column
MaxQuery(silver_path) ==
    IF ~ silver_path.readable THEN Raised
    ELSE IF \E i \in 1..Len(silver_path.rows) :
               "ingested_at" \notin DOMAIN silver_path.rows[i]
    THEN Raised
    ELSE Returned(MaxIngestedAt(silver_path.rows))

\* a function without the except branch: the exception reaches the caller
Unhandled(outcome) == outcome

\* except Exception: return datetime(1900, 1, 1)
Handled(outcome) == IF outcome.raised THEN Returned(SENTINEL) ELSE outcome

\* the whole function, as the outcome the caller sees
GetLastIngestedDate(silver_path) ==
    IF ~ silver_path.exists THEN Returned(SENTINEL)
    ELSE Handled(MaxQuery(silver_path))

\* the value the caller receives
get_last_ingested_date(silver_path) == GetLastIngestedDate(silver_path).value

(***************************************************************************)
(* Silver: run_silver_transformation.                                      *)
(***************************************************************************)
\* a filter on the whole postal code
WholeCode(s) == s

\* SQL substring(s, 1, 2); NULL for NULL
Prefix2(s) == IF s = NULL THEN NULL ELSE SubSeq(s, 1, Min(2, Len(s)))

\* ^\d{n}$ (also the str_length=n of the schemas)
MatchDigits(s, n) ==
    s # NULL /\ Len(s) = n /\ \A i \in 1..n : s[i] \in Digits


\* str.strip()
RECURSIVE LStrip(_)
LStrip(s) ==
    IF s # <<>> /\ Head(s) \in Whitespace THEN LStrip(Tail(s)) ELSE s

RECURSIVE RStrip(_)
RStrip(s) ==
    IF s # <<>> /\ s[Len(s)] \in Whitespace
    THEN RStrip(SubSeq(s, 1, Len(s) - 1)) ELSE s

\* a cleaning step that does not trim
NoStrip(s) == s

Strip(s) == RStrip(LStrip(s))

\* astype(str): a missing value becomes the text "None"
AsStr(s) == IF s = NULL THEN NONE_TEXT ELSE s

\* the settings run_silver_transformation reads: the column selection of
\* the dataset ("no_section": settings.silver has no entry for it) and
\* settings.filters.idf_departments
Settings(selected_columns, idf_departments) ==
    [selected_columns |-> selected_columns, idf_departments |-> idf_departments]

\* the settings of the project: columns listed, the regional filter set
target_depts == IdfDepartments

ProjectSettings == Settings("listed", target_depts)

\* a comparison that lets the watermark row itself through
NewerOrEqual(ingested_at, last_date) == ingested_at >= last_date

\* ingested_at > '<last_date>'
NewerThan(ingested_at, last_date) == ingested_at > last_date

\* WHERE ingested_at > '<last_date>' [AND substring(cp, 1, 2) IN (depts)]
Extracted(bronze_rows, last_date, name, depts) ==
    SelectSeq(bronze_rows,
              LAMBDA r :
                 /\ NewerThan(r.ingested_at, last_date)
                 /\ IF name = "etablissements" /\ depts # {}
                    THEN /\ r.codePostalEtablissement # NULL
                         /\ Prefix2(r.codePostalEtablissement) \in depts
                    ELSE TRUE)

\* id_cols = ["siret", "siren"] if "siret" in new_df.columns else ["siren"]
IdCols(name) == IF name = "etablissements" THEN {"siret", "siren"} ELSE {"siren"}

\* new_df.dropna(subset=id_cols)
DropNa(rows, cols) ==
    SelectSeq(rows, LAMBDA r : \A c \in cols : r[c] # NULL)

\* new_df["codePostalEtablissement"].astype(str).str.strip()
Stripped(rows) ==
    [i \in 1..Len(rows) |->
       [rows[i] EXCEPT !.codePostalEtablissement =
           Strip(AsStr(rows[i].codePostalEtablissement))]]

\* invalid_count = (~valid_cp_mask).sum(), the number the warning reports
InvalidCount(rows) ==
    Cardinality({i \in 1..Len(rows) :
                   ~ MatchDigits(Stripped(rows)[i].codePostalEtablissement, 5)})

\* strip the postal code, keep the rows matching ^\d{5}$, add departement
CleanEtab(rows) ==
    LET stripped == Stripped(rows)
        valid == SelectSeq(stripped,
                    LAMBDA r : MatchDigits(r.codePostalEtablissement, 5))
    IN [i \in 1..Len(valid) |->
          [siret |-> valid[i].siret, siren |-> valid[i].siren,
           codePostalEtablissement |-> valid[i].codePostalEtablissement,
           departement |-> SubSeq(valid[i].codePostalEtablissement, 1, 2),
           ingested_at |-> valid[i].ingested_at]]

\* the final string fill: a missing text value becomes "Indéterminé"
CleanUnite(rows) ==
    [i \in 1..Len(rows) |->
       [rows[i] EXCEPT !.categorieEntreprise =
           IF rows[i].categorieEntreprise = NULL THEN INDETERMINE
           ELSE rows[i].categorieEntreprise]]

\* step 3 of the function: cleaning and feature engineering of the batch
Cleaned(new_df, name) ==
    LET kept == DropNa(new_df, IdCols(name))
    IN IF name = "etablissements" THEN CleanEtab(kept) ELSE CleanUnite(kept)

\* drop_duplicates(subset=cols, keep="last")
DropDuplicatesLast(rows, cols) ==
    Pick(rows, {i \in 1..Len(rows) :
                  ~ \E j \in (i + 1)..Len(rows) :
                       \A c \in cols : rows[j][c] = rows[i][c]})

\* step 4: concat, postal code re-check, deduplication; or the batch alone
Merged(silver_output, new_df, name) ==
    IF silver_output.exists
    THEN LET concat == silver_output.rows \o new_df
             checked == IF name = "etablissements"
                        THEN SelectSeq(concat,
                               LAMBDA r : MatchDigits(r.codePostalEtablissement, 5))
                        ELSE concat
         IN DropDuplicatesLast(checked, IdCols(name))
    ELSE new_df

EtabSilverColumns ==
    {"siret", "siren", "codePostalEtablissement", "departement", "ingested_at"}

UniteSilverColumns == {"siren", "categorieEntreprise", "ingested_at"}

\* a schema whose key field lacks unique=True
NotCheckedUnique(rows, col) == TRUE

\* Field(..., unique=True)
UniqueOn(rows, col) ==
    \A i, j \in 1..Len(rows) : rows[i][col] = rows[j][col] => i = j

EtablissementSilverSchema(rows) ==
    /\ \A i \in 1..Len(rows) :
          /\ DOMAIN rows[i] = EtabSilverColumns
          /\ MatchDigits(rows[i].siret, 14)
          /\ MatchDigits(rows[i].siren, 9)
          /\ \/ rows[i].codePostalEtablissement = NULL
             \/ MatchDigits(rows[i].codePostalEtablissement, 5)
    /\ UniqueOn(rows, "siret")

UniteLegaleSilverSchema(rows) ==
    /\ \A i \in 1..Len(rows) :
          /\ DOMAIN rows[i] = UniteSilverColumns
          /\ MatchDigits(rows[i].siren, 9)
    /\ UniqueOn(rows, "siren")

\* a validation step that accepts every frame
ValidationSkipped(rows, name) == TRUE

\* SCHEMA_MAP[dataset_name].validate(final_df) does not raise
SchemaValid(rows, name) ==
    IF name = "etablissements" THEN EtablissementSilverSchema(rows)
    ELSE UniteLegaleSilverSchema(rows)

\* a check that never stops the run
NeverEmpty(df) == FALSE

\* new_df.empty
IsEmpty(df) == df = <<>>

\* a run that writes the file whatever the validation said
SavedUnvalidated(prior, final_df, valid) == File(final_df)

\* steps 5 and 6: schema.validate(final_df) raises before to_parquet is reached
Saved(prior, final_df, valid) == IF valid THEN File(final_df) ELSE prior

\* the count of the "Dropped ... malformed postal codes" warning (0: no warning)
Reported(extracted, name) ==
    IF name = "etablissements"
    THEN InvalidCount(DropNa(extracted, IdCols(name))) ELSE 0

SilverCall(result, stage, last_date, extracted, cleaned, merged, wrote) ==
    [NoCall EXCEPT !.op = "silver", !.result = result, !.stage = stage,
                   !.dropped = Reported(extracted, dataset_name),
                   !.prev_op = last.op, !.prev_result = last.result,
                   !.last_date = last_date, !.extracted = extracted,
                   !.cleaned = cleaned, !.merged = merged, !.wrote = wrote,
                   !.prior = silver_file]

\* the names SCHEMA_MAP holds
SCHEMA_MAP == DatasetNames

\* One call run_silver_transformation(dataset_name) under the settings
\* config.  fault "write" makes to_parquet fail; the file it was writing is
\* then the prior one (failure before the file is opened) or a partial file.
RunSilverTransformation(fault, config) ==
    /\ calls < MaxCalls
    /\ calls' = calls + 1
    /\ UNCHANGED <<dataset_name, clock, registry, bronze_file, bronze_calls,
                   run, gold, conc>>
    /\ LET silver_output == silver_file
           last_date == get_last_ingested_date(silver_output)
           Call(result, stage, extracted, cleaned, merged, wrote) ==
               [SilverCall(result, stage, last_date, extracted, cleaned,
                           merged, wrote) EXCEPT !.config = config]
       IN IF dataset_name \notin SCHEMA_MAP
          THEN \* raise ValueError, before the settings are read
               /\ UNCHANGED <<silver_dir, silver_file>>
               /\ last' = [Call("raise", "schema", <<>>, <<>>, <<>>, FALSE)
                             EXCEPT !.last_date = SENTINEL]
          ELSE IF config.selected_columns # "listed"
          THEN \* silver_dir.mkdir(...) has run when the selection is looked
               \* at: AttributeError on a missing section, KeyError on an
               \* empty selection
               /\ silver_dir' = TRUE
               /\ silver_file' = silver_file
               /\ last' = [Call("raise", "config", <<>>, <<>>, <<>>, FALSE)
                             EXCEPT !.last_date = SENTINEL]
          ELSE
          /\ silver_dir' = TRUE
          /\ IF ~ (bronze_file.exists /\ bronze_file.readable)
             THEN \* read_parquet(bronze_path) raises
                  /\ silver_file' = silver_file
                  /\ last' = Call("raise", "extract", <<>>, <<>>, <<>>, FALSE)
             ELSE
             LET extracted == Extracted(bronze_file.rows, last_date,
                                        dataset_name, config.idf_departments)
                 new_df == Cleaned(extracted, dataset_name)
                 final_df == Merged(silver_output, new_df, dataset_name)
                 valid == SchemaValid(final_df, dataset_name)
             IN IF IsEmpty(extracted)
                THEN \* return
                     /\ silver_file' = silver_file
                     /\ last' = Call("ok", "empty", extracted, <<>>, <<>>, FALSE)
                ELSE IF silver_output.exists /\ ~ silver_output.readable
                THEN \* pd.read_parquet(silver_output) raises
                     /\ silver_file' = silver_file
                     /\ last' = Call("raise", "merge", extracted, new_df,
                                     <<>>, FALSE)
                ELSE IF valid /\ fault = "write"
                THEN /\ silver_file' \in {silver_file, PartialFile}
                     /\ last' = Call("raise", "write", extracted, new_df,
                                     final_df, FALSE)
                ELSE /\ silver_file' = Saved(silver_file, final_df, valid)
                     /\ last' = Call(IF valid THEN "ok" ELSE "raise",
                                     IF valid THEN "write" ELSE "validate",
                                     extracted, new_df, final_df,
                                     silver_file' # silver_file \/ valid)

(***************************************************************************)
(* Orchestrator: main.  The jobs are called through their contract: what a  *)
(* call returns (normally, or with an exception) is an input of the step.   *)
(***************************************************************************)
\* a name settings.datasets may hold that SCHEMA_MAP does not know (the
\* default dataset_name of run_ingestion_bronze)
UnknownDataset == "Dataset"

ConfigurableNames == DatasetNames \cup {UnknownDataset}

\* list(settings.datasets.keys()): the keys of a mapping, each name once
DatasetLists ==
    {d \in UNION {[1..n -> ConfigurableNames] :
                     n \in 0..Cardinality(ConfigurableNames)} :
        \A i, j \in 1..Len(d) : d[i] = d[j] => i = j}

\* no pipeline run
NoRun ==
    [pc |-> "idle", datasets_to_process |-> <<>>, i |-> 0,
     successful_bronze |-> <<>>, successful_silver |-> <<>>, log |-> <<>>]

\* the state of main() after step 1 (configuration)
StartOfRun(datasets) ==
    [NoRun EXCEPT !.pc = "bronze", !.datasets_to_process = datasets]

\* one job call as the orchestrator sees it
JobCall(layer, name, result) == [layer |-> layer, name |-> name, result |-> result]

\* the results a job call may have: run_silver_transformation raises
\* ValueError for a name SCHEMA_MAP does not hold
JobResults(layer, name) ==
    IF layer = "silver" /\ name \notin DatasetNames THEN {"raise"}
    ELSE {"ok", "raise"}

\* a Silver loop over every configured dataset
AllConfigured(datasets, successful) == datasets

\* for name in successful_bronze:
SilverWorklist(datasets, successful) == successful

\* a gate that lets Gold run as soon as one dataset succeeded
AnySilverSucceeded(successful, datasets) == Len(successful) > 0

\* if len(successful_silver) == len(datasets_to_process):
GoldGate(successful, datasets) == Len(successful) = Len(datasets)

\* a handler that lets the exception end the run
Abort(pc) == "done"

\* except Exception as e: logger.error(...) -- the loop goes on
OnError(pc) == pc

\* where main goes when the Bronze loop is exhausted
AfterBronzeLoop == "silver"

\* a Silver loop followed by the Bronze loop again
BackToBronze == "bronze"

\* where main goes when the Silver loop is exhausted
AfterSilverLoop == "gold"

\* one iteration of "for name in datasets_to_process" (try/except included)
MainBronzeStep ==
    /\ run.pc = "bronze" /\ run.i < Len(run.datasets_to_process)
    /\ LET name == run.datasets_to_process[run.i + 1]
       IN \E result \in JobResults("bronze", name) :
            run' = [run EXCEPT
                      !.pc = IF result = "raise" THEN OnError(run.pc)
                                                 ELSE run.pc,
                      !.i = run.i + 1,
                      !.log = Append(run.log, JobCall("bronze", name, result)),
                      !.successful_bronze =
                          IF result = "ok" THEN Append(run.successful_bronze, name)
                          ELSE run.successful_bronze]
    /\ UNCHANGED <<dataset_name, clock, registry, bronze_file, silver_file,
                   calls, bronze_calls, last, silver_dir, gold, conc>>

\* the Bronze loop is exhausted: successful_silver = [], the Silver loop starts
MainBronzeDone ==
    /\ run.pc = "bronze" /\ run.i = Len(run.datasets_to_process)
    /\ run' = [run EXCEPT !.pc = AfterBronzeLoop, !.i = 0]
    /\ UNCHANGED <<dataset_name, clock, registry, bronze_file, silver_file,
                   calls, bronze_calls, last, silver_dir, gold, conc>>

\* one iteration of "for name in successful_bronze" (try/except included)
MainSilverStep ==
    /\ run.pc = "silver"
    /\ LET worklist == SilverWorklist(run.datasets_to_process,
                                      run.successful_bronze)
       IN /\ run.i < Len(worklist)
          /\ LET name == worklist[run.i + 1]
             IN \E result \in JobResults("silver", name) :
                  run' = [run EXCEPT
                            !.pc = IF result = "raise" THEN OnError(run.pc)
                                                       ELSE run.pc,
                            !.i = run.i + 1,
                            !.log = Append(run.log,
                                           JobCall("silver", name, result)),
                            !.successful_silver =
                                IF result = "ok"
                                THEN Append(run.successful_silver, name)
                                ELSE run.successful_silver]
    /\ UNCHANGED <<dataset_name, clock, registry, bronze_file, silver_file,
                   calls, bronze_calls, last, silver_dir, gold, conc>>

\* the Silver loop is exhausted
MainSilverDone ==
    /\ run.pc = "silver"
    /\ run.i = Len(SilverWorklist(run.datasets_to_process,
                                  run.successful_bronze))
    /\ run' = [run EXCEPT !.pc = AfterSilverLoop, !.i = 0]
    /\ UNCHANGED <<dataset_name, clock, registry, bronze_file, silver_file,
                   calls, bronze_calls, last, silver_dir, gold, conc>>

\* step 4: run_gold_layer() behind the gate, or the "skipped" warning
MainGoldStep ==
    /\ run.pc = "gold"
    /\ IF GoldGate(run.successful_silver, run.datasets_to_process)
       THEN \E result \in JobResults("gold", "master") :
               run' = [run EXCEPT
                         !.pc = "done",
                         !.log = Append(run.log,
                                        JobCall("gold", "master", result))]
       ELSE run' = [run EXCEPT !.pc = "done"]
    /\ UNCHANGED <<dataset_name, clock, registry, bronze_file, silver_file,
                   calls, bronze_calls, last, silver_dir, gold, conc>>

(***************************************************************************)
(* Gold: run_gold_layer.  gold holds the two Silver snapshots the function *)
(* reads and the files it writes.  A query result has no row order the     *)
(* code relies on: the master table is kept in the order of the            *)
(* establishment snapshot, the aggregates as sets of rows.                 *)
(***************************************************************************)
NoGold ==
    [etab |-> NoFile, ul |-> NoFile, master |-> NoFile,
     dept_dist |-> {}, size_dist |-> {}, result |-> "none"]

\* SELECT e.*, ul.categorieEntreprise, ...: the columns of one master row
MasterRow(e, categorieEntreprise) ==
    [siret |-> e.siret, siren |-> e.siren,
     codePostalEtablissement |-> e.codePostalEtablissement,
     departement |-> e.departement, ingested_at |-> e.ingested_at,
     categorieEntreprise |-> categorieEntreprise]

\* the legal units an establishment joins: ON e.siren = ul.siren
Matches(e, ul_rows) == SelectSeq(ul_rows, LAMBDA u : SqlEq(e.siren, u.siren))

\* an inner join: an establishment without a legal unit gives no row
InnerJoinRows(e, ul_rows) ==
    [i \in 1..Len(Matches(e, ul_rows)) |->
       MasterRow(e, Matches(e, ul_rows)[i].categorieEntreprise)]

\* LEFT JOIN: one row per match, or one row with NULL legal-unit columns
LeftJoinRows(e, ul_rows) ==
    IF Matches(e, ul_rows) = <<>> THEN <<MasterRow(e, NULL)>>
    ELSE [i \in 1..Len(Matches(e, ul_rows)) |->
            MasterRow(e, Matches(e, ul_rows)[i].categorieEntreprise)]

\* FROM read_parquet(etab_path) AS e LEFT JOIN read_parquet(ul_path) AS ul
RECURSIVE LeftJoin(_, _)
LeftJoin(etab_rows, ul_rows) ==
    IF etab_rows = <<>> THEN <<>>
    ELSE LeftJoinRows(Head(etab_rows), ul_rows)
            \o LeftJoin(Tail(etab_rows), ul_rows)

\* COUNT(*) of the rows of a group
CountWhere(rows, col, v) ==
    Cardinality({i \in 1..Len(rows) : rows[i][col] = v})

\* SELECT departement, COUNT(*) AS total_establishments ... GROUP BY departement
DeptDist(master) ==
    {[departement |-> d,
      total_establishments |-> CountWhere(master, "departement", d)] :
        d \in {master[i].departement : i \in 1..Len(master)}}

\* a size aggregate without the WHERE clause
NoWhere(master) == master

\* WHERE categorieEntreprise IS NOT NULL
WhereNotNull(master) ==
    SelectSeq(master, LAMBDA r : r.categorieEntreprise # NULL)

\* SELECT categorieEntreprise, COUNT(*) AS total ... GROUP BY categorieEntreprise
SizeDist(master) ==
    LET rows == WhereNotNull(master)
    IN {[categorieEntreprise |-> c,
         total |-> CountWhere(rows, "categorieEntreprise", c)] :
           c \in {rows[i].categorieEntreprise : i \in 1..Len(rows)}}

\* One call run_gold_layer(): FileNotFoundError when a Silver file is
\* missing; a Silver file that is not a Parquet file makes the first COPY
\* raise; otherwise the master file and the aggregates are written.
RunGoldLayer ==
    /\ calls < MaxCalls
    /\ calls' = calls + 1
    /\ IF ~ gold.etab.exists \/ ~ gold.ul.exists
       THEN gold' = [gold EXCEPT !.result = "raise"]
       ELSE IF ~ gold.etab.readable \/ ~ gold.ul.readable
       THEN gold' = [gold EXCEPT !.result = "raise"]
       ELSE LET master == LeftJoin(gold.etab.rows, gold.ul.rows)
            IN gold' = [gold EXCEPT !.master = File(master),
                                    !.dept_dist = DeptDist(master),
                                    !.size_dist = SizeDist(master),
                                    !.result = "ok"]
    /\ UNCHANGED <<dataset_name, clock, registry, bronze_file, silver_file,
                   bronze_calls, last, run, silver_dir, conc>>

(***************************************************************************)
(* Two run_ingestion_bronze calls on one registry path at the same time.   *)
(* A call is followed statement by statement.  DuckDB locks the database   *)
(* file against another process; connections of one process share the     *)
(* database, and appends of concurrent transactions never conflict.        *)
(***************************************************************************)
NoConc == [same_process |-> FALSE, call |-> <<>>]

\* a call that has not started yet
PendingCall(source) ==
    [pc |-> "start", source |-> source, ingested_at |-> SENTINEL, rows |-> <<>>]

\* the positions at which a call holds the registry open
HoldsRegistry == {"open", "inserting", "inserted", "exported"}

OtherCall(c) == 3 - c

\* con = duckdb.connect(database=db_metadata_path); ingested_at = now()
ConcConnect(c) ==
    /\ conc.call[c].pc = "start"
    /\ \E now \in {t \in {clock, clock + 1} : t <= MaxClock} :
         /\ clock' = now
         /\ IF conc.call[OtherCall(c)].pc \in HoldsRegistry
               /\ ~ conc.same_process
            THEN \* IOException: the file is locked by the other process
                 conc' = [conc EXCEPT !.call[c].pc = "failed"]
            ELSE conc' = [conc EXCEPT !.call[c].pc = "open",
                                      !.call[c].ingested_at = now]
    /\ UNCHANGED <<dataset_name, registry, bronze_file, silver_file, calls,
                   bronze_calls, last, run, silver_dir, gold>>

\* the INSERT statement starts: its SELECT reads the committed table
ConcInsertBegin(c) ==
    /\ conc.call[c].pc = "open"
    /\ conc' = [conc EXCEPT
                  !.call[c].pc = "inserting",
                  !.call[c].rows =
                      StampAll(AntiJoin(conc.call[c].source, registry,
                                        PrimaryKey(dataset_name)),
                               conc.call[c].ingested_at)]
    /\ UNCHANGED <<dataset_name, clock, registry, bronze_file, silver_file,
                   calls, bronze_calls, last, run, silver_dir, gold>>

\* the INSERT statement commits: the rows are appended
ConcInsertCommit(c) ==
    /\ conc.call[c].pc = "inserting"
    /\ registry' = InsertInto(registry, conc.call[c].rows)
    /\ conc' = [conc EXCEPT !.call[c].pc = "inserted"]
    /\ UNCHANGED <<dataset_name, clock, bronze_file, silver_file, calls,
                   bronze_calls, last, run, silver_dir, gold>>

\* the COPY statement
ConcCopy(c) ==
    /\ conc.call[c].pc = "inserted"
    /\ bronze_file' = CopyTo(registry, conc.call[c].rows)
    /\ conc' = [conc EXCEPT !.call[c].pc = "exported"]
    /\ UNCHANGED <<dataset_name, clock, registry, silver_file, calls,
                   bronze_calls, last, run, silver_dir, gold>>

\* finally: con.close()
ConcClose(c) ==
    /\ conc.call[c].pc = "exported"
    /\ conc' = [conc EXCEPT !.call[c].pc = "closed"]
    /\ UNCHANGED <<dataset_name, clock, registry, bronze_file, silver_file,
                   calls, bronze_calls, last, run, silver_dir, gold>>

Init ==
    /\ run = NoRun
    /\ gold = NoGold
    /\ conc = NoConc
    /\ silver_dir = FALSE
    /\ dataset_name \in DatasetNames
    /\ clock = 1
    /\ registry = <<>>
    /\ bronze_file = NoFile
    /\ silver_file = NoFile
    /\ calls = 0
    /\ bronze_calls = 0
    /\ last = NoCall

\* the seconds the next datetime.now() may read
Nows == {t \in {clock, clock + 1} : t <= MaxClock}

\* the calls enumerated: on the shared registry any cap and fault; on another
\* registry an uncapped call that does not fail
Bronze ==
    \E source \in Sources(dataset_name), now \in Nows :
       \/ \E limit \in 0..MaxLimit, fault \in {"none", "source", "export"} :
             RunIngestionBronze(source, now, limit, "", fault)
       \/ RunIngestionBronze(source, now, 0, "other", "none")

Silver ==
    \E fault \in {"none", "write"} :
       RunSilverTransformation(fault, ProjectSettings)

Next == Bronze \/ Silver

Spec == Init /\ [][Next]_vars

(***************************************************************************)
(* The watermark function alone, on every kind of file it may be given.    *)
(***************************************************************************)
\* the rows a Parquet file at silver_path may hold: with an ingested_at
\* value, with a missing one, or without the column
WatermarkRows(name) ==
    {Stamp(r, t) : r \in SourceRows(name), t \in {NaT} \cup (1..MaxClock)}
       \cup SourceRows(name)

WatermarkFiles(name) ==
    {NoFile, PartialFile} \cup
    {File(rows) : rows \in UNION {[1..n -> WatermarkRows(name)] :
                                     n \in 0..MaxSrcLen}}

WatermarkInit ==
    /\ run = NoRun
    /\ gold = NoGold
    /\ conc = NoConc
    /\ silver_dir = FALSE
    /\ dataset_name \in DatasetNames
    /\ clock = 1
    /\ registry = <<>>
    /\ bronze_file = NoFile
    /\ silver_file \in WatermarkFiles(dataset_name)
    /\ calls = 0
    /\ bronze_calls = 0
    /\ last = NoCall

\* one call get_last_ingested_date(silver_path): a read-only query
WatermarkCall ==
    /\ calls < MaxCalls
    /\ calls' = calls + 1
    /\ LET outcome == GetLastIngestedDate(silver_file)
       IN last' = [NoCall EXCEPT
                     !.op = "watermark",
                     !.result = IF outcome.raised THEN "raise" ELSE "ok",
                     !.last_date = outcome.value,
                     !.prior = silver_file]
    /\ UNCHANGED <<dataset_name, clock, registry, bronze_file, silver_file,
                   bronze_calls, run, silver_dir, gold, conc>>

WatermarkNext == WatermarkCall

WatermarkSpec == WatermarkInit /\ [][WatermarkNext]_vars

(***************************************************************************)
(* One pipeline run of main, for every list of configured datasets.        *)
(***************************************************************************)
MainInit ==
    /\ run \in {StartOfRun(d) : d \in DatasetLists}
    /\ gold = NoGold
    /\ conc = NoConc
    /\ silver_dir = FALSE
    /\ dataset_name \in DatasetNames
    /\ clock = 1
    /\ registry = <<>>
    /\ bronze_file = NoFile
    /\ silver_file = NoFile
    /\ calls = 0
    /\ bronze_calls = 0
    /\ last = NoCall

MainNext ==
    \/ MainBronzeStep
    \/ MainBronzeDone
    \/ MainSilverStep
    \/ MainSilverDone
    \/ MainGoldStep

MainSpec == MainInit /\ [][MainNext]_vars

(***************************************************************************)
(* run_silver_transformation under every kind of settings, on Bronze       *)
(* exports holding every kind of postal code.                              *)
(***************************************************************************)
PostalCodes == {CP_75, CP_69, CP_PADDED, CP_95, CP_SHORT, CP_ALPHA, NULL}

SettingsRows(name) ==
    IF name = "etablissements"
    THEN {Etab(SIRET_A, SIREN_A, cp) : cp \in PostalCodes}
            \cup {Etab(SIRET_B, SIREN_B, cp) : cp \in PostalCodes}
    ELSE UniteSourceRows

\* the Bronze exports: rows of one or several runs
SettingsBronzeFiles(name) ==
    {NoFile} \cup
    {File(rows) :
       rows \in UNION {[1..n -> {Stamp(r, t) : r \in SettingsRows(name),
                                              t \in 1..MaxClock}] :
                         n \in 0..MaxSrcLen}}

\* no snapshot yet, or the snapshot a first run left at second 1
PriorSnapshots(name) ==
    {NoFile,
     File(Cleaned(<<Stamp(IF name = "etablissements"
                          THEN Etab(SIRET_A, SIREN_A, CP_75)
                          ELSE Unite(SIREN_A, PME), 1)>>, name))}

SettingsList ==
    {Settings(c, d) : c \in {"no_section", "empty", "listed"},
                      d \in {{}, target_depts}}

SettingsInit ==
    /\ run = NoRun
    /\ gold = NoGold
    /\ conc = NoConc
    /\ dataset_name \in ConfigurableNames
    /\ clock = 1
    /\ registry = <<>>
    /\ bronze_file \in SettingsBronzeFiles(dataset_name)
    /\ silver_file \in PriorSnapshots(dataset_name)
    /\ silver_dir \in IF silver_file.exists THEN {TRUE} ELSE BOOLEAN
    /\ calls = 0
    /\ bronze_calls = 0
    /\ last = NoCall

SettingsNext ==
    \E fault \in {"none", "write"}, config \in SettingsList :
       RunSilverTransformation(fault, config)

SettingsSpec == SettingsInit /\ [][SettingsNext]_vars

(***************************************************************************)
(* run_gold_layer on every pair of Silver snapshots.                       *)
(***************************************************************************)
GoldEtabRows ==
    {CleanEtab(<<Stamp(Etab(siret, siren, cp), 1)>>)[1] :
       siret \in {SIRET_A, SIRET_B}, siren \in {SIREN_A, SIREN_B},
       cp \in {CP_75, CP_95}}

GoldUniteRows ==
    {CleanUnite(<<Stamp(Unite(siren, cat), 1)>>)[1] :
       siren \in {SIREN_A, SIREN_B}, cat \in {PME, GE, NULL}}

\* the files a Silver run may have left: none, a partial one, a valid snapshot
Snapshots(rows, name) ==
    {NoFile, PartialFile} \cup
    {File(f) : f \in {g \in UNION {[1..n -> rows] : n \in 0..MaxSrcLen} :
                        SchemaValid(g, name)}}

GoldInit ==
    /\ run = NoRun
    /\ conc = NoConc
    /\ gold \in {[NoGold EXCEPT !.etab = e, !.ul = u] :
                   e \in Snapshots(GoldEtabRows, "etablissements"),
                   u \in Snapshots(GoldUniteRows, "unites_legales")}
    /\ dataset_name = "etablissements"
    /\ clock = 1
    /\ registry = <<>>
    /\ bronze_file = NoFile
    /\ silver_file = NoFile
    /\ silver_dir = TRUE
    /\ calls = 0
    /\ bronze_calls = 0
    /\ last = NoCall

GoldNext == RunGoldLayer

GoldSpec == GoldInit /\ [][GoldNext]_vars

(***************************************************************************)
(* Two concurrent run_ingestion_bronze calls on an empty registry, in one  *)
(* process or in two, with sources that hold each key once.                *)
(***************************************************************************)
ConcSources(name) ==
    {src \in Sources(name) :
        /\ \A i \in 1..Len(src) : src[i][PrimaryKey(name)] # NULL
        /\ \A i, j \in 1..Len(src) :
              src[i][PrimaryKey(name)] = src[j][PrimaryKey(name)] => i = j}

ConcInit ==
    /\ run = NoRun
    /\ gold = NoGold
    /\ dataset_name \in DatasetNames
    /\ conc \in {[same_process |-> b,
                  call |-> <<PendingCall(s1), PendingCall(s2)>>] :
                   b \in BOOLEAN, s1 \in ConcSources(dataset_name),
                   s2 \in ConcSources(dataset_name)}
    /\ clock = 1
    /\ registry = <<>>
    /\ bronze_file = NoFile
    /\ silver_file = NoFile
    /\ silver_dir = FALSE
    /\ calls = 0
    /\ bronze_calls = 0
    /\ last = NoCall

ConcNext ==
    \E c \in {1, 2} :
       \/ ConcConnect(c)
       \/ ConcInsertBegin(c)
       \/ ConcInsertCommit(c)
       \/ ConcCopy(c)
       \/ ConcClose(c)

ConcSpec == ConcInit /\ [][ConcNext]_vars

(***************************************************************************)
(* Properties.                                                             *)
(***************************************************************************)
pk == PrimaryKey(dataset_name)

KeysOf(rows) == {rows[i][pk] : i \in 1..Len(rows)}

\* the call just made was a Bronze call whose INSERT statement ran
BronzeInserted == last.op = "bronze" /\ (last.result = "ok" \/ last.inserted # <<>>)

\* C1: no two rows of the registry table share the same (present) primary key.
C1_NoDuplicatePrimaryKeys ==
    \A i, j \in 1..Len(registry) :
       SqlEq(registry[i][pk], registry[j][pk]) => i = j

\* C2: a second successful call with the same source on the registry left by
\* the first inserts no row.  Stated for uncapped calls (limit 0), where no
\* row cap can be what defers rows to the second call.
C2_SecondRunInsertsNothing ==
    (last.op = "bronze" /\ last.result = "ok" /\ last.repeat
       /\ last.final_limit = 0)
    => last.inserted = <<>>

\* C3: an uncapped call on the registry appends exactly the source rows whose
\* primary key is not a key of the registry table before the call.
C3_InsertsExactlyUnseenKeys ==
    [][(/\ calls' = calls + 1
        /\ last'.op = "bronze" /\ last'.result = "ok"
        /\ last'.registry_path = "" /\ last'.final_limit = 0)
       => registry' = registry \o
             StampAll(SelectSeq(last'.source,
                                LAMBDA r : r[pk] \notin KeysOf(registry)),
                      clock')]_vars

\* C4: every row of the registry table stays where it is with all its values,
\* ingested_at included, in every step: no run updates or deletes a row.
C4_BronzeRowsImmutable ==
    [][/\ Len(registry') >= Len(registry)
       /\ \A i \in 1..Len(registry) : registry'[i] = registry[i]]_vars

\* a call added rows, stamped with a later second, to a table that had rows
C4_Witness ==
    /\ BronzeInserted /\ last.registry_path = ""
    /\ last.inserted # <<>>
    /\ Len(registry) > Len(last.inserted)
    /\ registry[1].ingested_at < registry[Len(registry)].ingested_at

\* C5: a Silver snapshot left by a successful run has at most one row per
\* primary key.
C5_SilverPrimaryKeyUnique ==
    (last.op = "silver" /\ last.result = "ok" /\ last.wrote)
    => /\ silver_file.readable
       /\ \A i, j \in 1..Len(silver_file.rows) :
             silver_file.rows[i][pk] = silver_file.rows[j][pk] => i = j

\* a successful run whose merge removed a row of a repeated key
C5_Witness ==
    /\ last.op = "silver" /\ last.result = "ok" /\ last.wrote
    /\ last.prior.exists
    /\ Len(silver_file.rows) < Len(last.prior.rows) + Len(last.cleaned)
    /\ Len(silver_file.rows) >= 2

\* C6: when the existing snapshot and the cleaned batch both hold key K, the
\* merged result has exactly one row for K, and it is a row of the batch.
C6_MergeKeepsLatest ==
    (last.op = "silver" /\ last.stage \in {"validate", "write"}
       /\ last.prior.exists)
    => \A k \in KeysOf(last.prior.rows) \cap KeysOf(last.cleaned) :
          /\ Cardinality({i \in 1..Len(last.merged) : last.merged[i][pk] = k}) = 1
          /\ \A i \in 1..Len(last.merged) :
                last.merged[i][pk] = k => last.merged[i] \in Range(last.cleaned)

\* C7: the extraction holds only Bronze rows with ingested_at strictly greater
\* than the watermark; no row whose ingested_at equals it is extracted.
C7_ExtractionStrictlyAfterWatermark ==
    (last.op = "silver" /\ last.stage # "extract")
    => /\ \A i \in 1..Len(last.extracted) :
             /\ last.extracted[i] \in Range(bronze_file.rows)
             /\ last.extracted[i].ingested_at > last.last_date
       /\ \A i \in 1..Len(bronze_file.rows) :
             bronze_file.rows[i].ingested_at = last.last_date
                => bronze_file.rows[i] \notin Range(last.extracted)

\* an extraction under a real watermark W, with Bronze rows at W and after W
C7_Witness ==
    /\ last.op = "silver" /\ last.stage # "extract"
    /\ last.last_date # SENTINEL
    /\ \E i \in 1..Len(bronze_file.rows) :
          bronze_file.rows[i].ingested_at = last.last_date
    /\ last.extracted # <<>>

\* C8: a second call right after a successful first call that left rows, with
\* no Bronze call in between, performs no write and leaves the snapshot as
\* the first call left it.
C8_SecondSilverRunIsNoOp ==
    (last.op = "silver" /\ last.prev_op = "silver" /\ last.prev_result = "ok"
       /\ last.result = "ok" /\ last.prior.rows # <<>>)
    => ~ last.wrote /\ silver_file = last.prior

\* C9: when the extraction yields no rows the run returns successfully,
\* writes nothing and leaves the snapshot file as it was.
C9_EmptyExtractionWritesNothing ==
    (last.op = "silver" /\ last.stage # "extract" /\ last.extracted = <<>>)
    => last.result = "ok" /\ ~ last.wrote /\ silver_file = last.prior

\* an empty extraction while a snapshot with rows exists
C9_Witness ==
    /\ last.op = "silver" /\ last.stage = "empty"
    /\ last.extracted = <<>>
    /\ silver_file.exists /\ silver_file.rows # <<>>
    /\ bronze_file.rows # <<>>

\* C10: when the merged result fails schema validation the run raises and the
\* snapshot file is exactly the one found before the call.
C10_ValidationFailurePersistsNothing ==
    (last.op = "silver" /\ last.stage \in {"validate", "write"}
       /\ ~ SchemaValid(last.merged, dataset_name))
    => last.result = "raise" /\ ~ last.wrote /\ silver_file = last.prior

\* a failed validation of a merge with an existing snapshot
C10_Witness ==
    /\ last.op = "silver" /\ last.stage = "validate" /\ last.result = "raise"
    /\ last.prior.exists /\ last.prior.rows # <<>>
    /\ last.merged # last.prior.rows

\* C11: every row of a readable Silver snapshot file has the declared columns
\* and well-formed values: siret 14 digits, siren 9 digits, a present postal
\* code 5 digits.  No malformed row is ever persisted.
C11_PersistedRowsWellFormed ==
    (silver_file.exists /\ silver_file.readable)
    => \A i \in 1..Len(silver_file.rows) :
          LET row == silver_file.rows[i]
          IN IF dataset_name = "etablissements"
             THEN /\ DOMAIN row = EtabSilverColumns
                  /\ MatchDigits(row.siret, 14)
                  /\ MatchDigits(row.siren, 9)
                  /\ \/ row.codePostalEtablissement = NULL
                     \/ MatchDigits(row.codePostalEtablissement, 5)
             ELSE /\ DOMAIN row = UniteSilverColumns
                  /\ MatchDigits(row.siren, 9)

\* a run whose merged result held a malformed key was stopped by the
\* validation while a snapshot with rows exists
C11_Witness ==
    /\ last.op = "silver" /\ last.stage = "validate"
    /\ silver_file.readable /\ silver_file.rows # <<>>
    /\ \E i \in 1..Len(last.merged) :
          ~ MatchDigits(last.merged[i][pk], IF pk = "siret" THEN 14 ELSE 9)

\* C12: after every call of run_silver_transformation, failed writes
\* included, the Silver file is the complete prior file or the complete new
\* snapshot, never a partial file.
C12_SilverWriteAtomic ==
    last.op = "silver"
    => \/ silver_file = last.prior
       \/ silver_file = File(last.merged)

\* C13: the value get_last_ingested_date returns for the Silver file never
\* decreases in any step (Bronze runs, successful and failed Silver runs).
C13_WatermarkMonotonic ==
    [][get_last_ingested_date(silver_file')
          >= get_last_ingested_date(silver_file)]_vars

\* the ingested_at values of the rows of a file that has the column
IngestedValues(file) ==
    {file.rows[i].ingested_at : i \in 1..Len(file.rows)} \ {NaT}

\* the file can be queried for MAX(ingested_at) and has a value
HasWatermark(file) ==
    /\ file.exists /\ file.readable
    /\ \A i \in 1..Len(file.rows) : "ingested_at" \in DOMAIN file.rows[i]
    /\ IngestedValues(file) # {}

\* C14: get_last_ingested_date never raises; it returns the maximum
\* ingested_at of a readable file that has a value, the sentinel for a file
\* that does not exist, is unreadable, lacks the column or has no value; and
\* it leaves the file as it was.
C14_WatermarkNeverRaises ==
    last.op = "watermark"
    => /\ last.result = "ok"
       /\ silver_file = last.prior
       /\ IF HasWatermark(silver_file)
          THEN /\ last.last_date \in IngestedValues(silver_file)
               /\ \A v \in IngestedValues(silver_file) : v <= last.last_date
          ELSE last.last_date = SENTINEL

\* a call on a file the query fails on (not a Parquet file, or no column)
C14_Witness ==
    /\ last.op = "watermark"
    /\ silver_file.exists /\ MaxQuery(silver_file).raised
    /\ last.last_date = SENTINEL

\* C15: a run_ingestion_bronze call in which a statement failed ends with an
\* exception, and the registry connection is closed when any call ends.
C15_BronzeFailurePropagatesAndCloses ==
    last.op = "bronze"
    => /\ last.con = "closed"
       /\ last.fault # "none" => last.result = "raise"

\* a call whose COPY failed after rows were inserted
C15_Witness ==
    /\ last.op = "bronze" /\ last.fault = "export"
    /\ last.result = "raise" /\ last.con = "closed"
    /\ last.inserted # <<>>

\* C16: after a successful run_ingestion_bronze call the export file holds
\* exactly the rows of the registry table the call worked on, the rows of
\* earlier runs included.
C16_ExportHoldsFullRegistry ==
    (last.op = "bronze" /\ last.result = "ok")
    => bronze_file = File(IF last.registry_path = "" THEN registry
                                                      ELSE last.inserted)

\* a successful call that added rows to a table holding rows of an earlier run
C16_Witness ==
    /\ last.op = "bronze" /\ last.result = "ok" /\ last.registry_path = ""
    /\ last.inserted # <<>>
    /\ Len(registry) > Len(last.inserted)
    /\ bronze_file.rows = registry

C18_NoNewRowsLoggedUpToDate ==
    (last.op = "bronze" /\ last.fault = "none" /\ last.inserted = <<>>)
    => last.result = "ok" /\ last.up_to_date

\* the positions of the log where run_silver_transformation is called for name
SilverCallsOf(name) ==
    {k \in 1..Len(run.log) :
        run.log[k].layer = "silver" /\ run.log[k].name = name}

\* run_ingestion_bronze returned normally for name before position k
BronzeOkBefore(name, k) ==
    \E j \in 1..(k - 1) : run.log[j] = JobCall("bronze", name, "ok")

\* C19: in a pipeline run, every call of run_silver_transformation is for a
\* dataset whose run_ingestion_bronze call succeeded earlier in the run, no
\* dataset is transformed twice, and once the Silver phase is over every
\* successfully ingested dataset has been transformed exactly once.
C19_SilverOncePerIngestedDataset ==
    /\ \A k \in 1..Len(run.log) :
          run.log[k].layer = "silver" => BronzeOkBefore(run.log[k].name, k)
    /\ \A name \in ConfigurableNames : Cardinality(SilverCallsOf(name)) <= 1
    /\ run.pc \in {"gold", "done"}
       => \A name \in ConfigurableNames :
             BronzeOkBefore(name, Len(run.log) + 1)
                => Cardinality(SilverCallsOf(name)) = 1

\* a finished run of two datasets or more: one failed in Bronze and was not
\* transformed, another was ingested and transformed
C19_Witness ==
    /\ run.pc = "done"
    /\ \E a, b \in Range(run.datasets_to_process) :
          /\ \E j \in 1..Len(run.log) : run.log[j] = JobCall("bronze", a, "raise")
          /\ SilverCallsOf(a) = {}
          /\ BronzeOkBefore(b, Len(run.log) + 1)
          /\ Cardinality(SilverCallsOf(b)) = 1

\* the positions of the log where run_gold_layer is called
GoldCalls == {k \in 1..Len(run.log) : run.log[k].layer = "gold"}

\* C20: run_gold_layer is called only after run_silver_transformation
\* succeeded for every configured dataset; a finished run in which a Bronze
\* or a Silver call failed has not called it.
C20_GoldOnlyAfterAllSilver ==
    /\ \A k \in GoldCalls :
          \A i \in 1..Len(run.datasets_to_process) :
             \E j \in 1..(k - 1) :
                run.log[j] = JobCall("silver", run.datasets_to_process[i], "ok")
    /\ (/\ run.pc = "done"
        /\ \E j \in 1..Len(run.log) :
              /\ run.log[j].layer \in {"bronze", "silver"}
              /\ run.log[j].result = "raise")
       => GoldCalls = {}

\* a finished run of two datasets in which Gold was called
C20_Witness ==
    /\ run.pc = "done"
    /\ Len(run.datasets_to_process) = 2
    /\ GoldCalls # {}

\* the Bronze calls of the log for name
BronzeCallsOf(name) ==
    {k \in 1..Len(run.log) :
        run.log[k].layer = "bronze" /\ run.log[k].name = name}

\* C21: once the Bronze loop is over every configured dataset has had its
\* Bronze step attempted, and once the Silver loop is over every dataset
\* whose Bronze step succeeded has had its Silver step attempted, whatever
\* the other calls returned.
C21_FailureDoesNotAbortOthers ==
    /\ run.pc \in {"silver", "gold", "done"}
       => \A i \in 1..Len(run.datasets_to_process) :
             Cardinality(BronzeCallsOf(run.datasets_to_process[i])) = 1
    /\ run.pc \in {"gold", "done"}
       => \A name \in ConfigurableNames :
             BronzeOkBefore(name, Len(run.log) + 1) => SilverCallsOf(name) # {}

\* a finished run in which the first Bronze call failed and a Silver call
\* failed, each followed by the call for the next dataset
C21_Witness ==
    /\ run.pc = "done"
    /\ Len(run.log) >= 5
    /\ run.log[1].layer = "bronze" /\ run.log[1].result = "raise"
    /\ run.log[2].layer = "bronze"
    /\ \E k \in 1..(Len(run.log) - 1) :
          /\ run.log[k].layer = "silver" /\ run.log[k].result = "raise"
          /\ run.log[k + 1].layer = "silver"

\* C22: a call of run_silver_transformation that ends on a configuration
\* error (no schema for the name, no column selection) raises and has
\* created no directory and created, read or written no file.
C22_ConfigErrorBeforeAnyIO ==
    [][(/\ calls' = calls + 1
        /\ last'.op = "silver" /\ last'.stage \in {"schema", "config"})
       => /\ last'.result = "raise"
          /\ silver_dir' = silver_dir
          /\ silver_file' = silver_file
          /\ bronze_file' = bronze_file]_vars

\* C23: of two calls on one registry path, the one that connects while the
\* other holds the registry does not get through (so the two never hold it
\* together); the registry never holds a key twice; and a call that has
\* closed has each of its source keys in the registry.
C23_ConcurrentCallsKeepRegistrySound ==
    conc.call # <<>>
    => /\ ~ (/\ conc.call[1].pc \in HoldsRegistry
             /\ conc.call[2].pc \in HoldsRegistry)
       /\ \A i, j \in 1..Len(registry) :
             SqlEq(registry[i][pk], registry[j][pk]) => i = j
       /\ \A c \in {1, 2} :
             conc.call[c].pc = "closed"
                => \A i \in 1..Len(conc.call[c].source) :
                      conc.call[c].source[i][pk] \in KeysOf(registry)

\* the first two characters of a postal code are in the filter set
InFilter(cp, depts) ==
    cp # NULL /\ Len(cp) >= 2 /\ <<cp[1], cp[2]>> \in depts

\* C24: the extraction holds exactly the Bronze rows after the watermark
\* that, for the establishment dataset with a non-empty filter, have a
\* postal code whose first two characters are in the filter; for the
\* legal-unit dataset or an empty filter every row after the watermark.
C24_RegionalFilterExact ==
    (last.op = "silver" /\ last.stage \in {"empty", "merge", "validate", "write"})
    => /\ \A i \in 1..Len(last.extracted) :
             last.extracted[i] \in Range(bronze_file.rows)
       /\ \A i \in 1..Len(bronze_file.rows) :
             LET r == bronze_file.rows[i]
             IN r \in Range(last.extracted)
                <=> /\ r.ingested_at > last.last_date
                    /\ (dataset_name = "etablissements"
                          /\ last.config.idf_departments # {})
                       => InFilter(r.codePostalEtablissement,
                                   last.config.idf_departments)

\* an extraction under the IDF filter that kept a 95 row and dropped a 69 row
C24_Witness ==
    /\ last.op = "silver" /\ dataset_name = "etablissements"
    /\ last.config.idf_departments = IdfDepartments
    /\ Len(last.extracted) = 1
    /\ last.extracted[1].codePostalEtablissement = CP_95
    /\ \E i \in 1..Len(bronze_file.rows) :
          /\ bronze_file.rows[i].codePostalEtablissement = CP_69
          /\ bronze_file.rows[i].ingested_at > last.last_date

\* the legal units of a snapshot that carry the siren of e
UnitsOf(e, ul_rows) == {j \in 1..Len(ul_rows) : ul_rows[j].siren = e.siren}

\* C25: after a successful run_gold_layer the master file has exactly one
\* row for each row of the establishment snapshot, with the establishment's
\* values; its legal-unit column is the one of the legal unit with the same
\* siren, and NULL when the legal-unit snapshot has none.
C25_OneMasterRowPerEstablishment ==
    gold.result = "ok"
    => /\ gold.master.readable
       /\ Len(gold.master.rows) = Len(gold.etab.rows)
       /\ \A i \in 1..Len(gold.etab.rows) :
             LET e == gold.etab.rows[i]
                 K == {k \in 1..Len(gold.master.rows) :
                         gold.master.rows[k].siret = e.siret}
             IN /\ Cardinality(K) = 1
                /\ \A k \in K :
                      LET m == gold.master.rows[k]
                      IN /\ \A col \in DOMAIN e : m[col] = e[col]
                         /\ UnitsOf(e, gold.ul.rows) = {}
                               => m.categorieEntreprise = NULL
                         /\ \A j \in UnitsOf(e, gold.ul.rows) :
                               m.categorieEntreprise =
                                  gold.ul.rows[j].categorieEntreprise

\* a master file of two establishments, one with and one without a legal unit
C25_Witness ==
    /\ gold.result = "ok"
    /\ Len(gold.etab.rows) = 2 /\ gold.ul.rows # <<>>
    /\ \E i, k \in 1..Len(gold.master.rows) :
          /\ gold.master.rows[i].categorieEntreprise = NULL
          /\ gold.master.rows[k].categorieEntreprise # NULL

\* the number of master rows with value v in column col
MasterCount(col, v) ==
    Cardinality({k \in 1..Len(gold.master.rows) : gold.master.rows[k][col] = v})

\* C26: after a successful run_gold_layer the region aggregate has one row
\* per region of the master table, giving the number of master rows of that
\* region; the size aggregate has one row per non-null size category of the
\* master table, giving the number of master rows with that category, and
\* no row for the null category.
C26_AggregatesAreGroupCounts ==
    gold.result = "ok"
    => /\ \A x \in gold.dept_dist :
             /\ x.total_establishments = MasterCount("departement", x.departement)
             /\ x.total_establishments > 0
       /\ \A x, y \in gold.dept_dist : x.departement = y.departement => x = y
       /\ \A k \in 1..Len(gold.master.rows) :
             \E x \in gold.dept_dist :
                x.departement = gold.master.rows[k].departement
       /\ \A x \in gold.size_dist :
             /\ x.categorieEntreprise # NULL
             /\ x.total = MasterCount("categorieEntreprise", x.categorieEntreprise)
             /\ x.total > 0
       /\ \A x, y \in gold.size_dist :
             x.categorieEntreprise = y.categorieEntreprise => x = y
       /\ \A k \in 1..Len(gold.master.rows) :
             gold.master.rows[k].categorieEntreprise # NULL
                => \E x \in gold.size_dist :
                      x.categorieEntreprise =
                         gold.master.rows[k].categorieEntreprise

\* aggregates of a master table with two rows in one region, one of them
\* without a size category
C26_Witness ==
    /\ gold.result = "ok"
    /\ \E x \in gold.dept_dist : x.total_establishments = 2
    /\ \E k \in 1..Len(gold.master.rows) :
          gold.master.rows[k].categorieEntreprise = NULL
    /\ gold.size_dist # {}

\* a postal code without the blanks at its two ends
TrimOf(s) ==
    LET I == {i \in 1..Len(s) : s[i] # " "}
    IN IF I = {} THEN <<>>
       ELSE SubSeq(s, CHOOSE a \in I : \A b \in I : a <= b,
                      CHOOSE a \in I : \A b \in I : b <= a)

\* the trimmed postal code is five digits
FiveDigits(cp) ==
    /\ cp # NULL
    /\ Len(TrimOf(cp)) = 5
    /\ \A i \in 1..5 : TrimOf(cp)[i] \in Digits

\* C27: the cleaned batch of an establishment run holds exactly the
\* extracted rows whose trimmed postal code is five digits, with the code
\* trimmed; the other rows (non-numeric, wrong length, missing) are dropped
\* without failing the run at that step, and their number is reported.
C27_PostalCleaningExact ==
    (/\ last.op = "silver" /\ dataset_name = "etablissements"
     /\ last.stage \in {"merge", "validate", "write"})
    => LET good == SelectSeq(last.extracted,
                      LAMBDA r : FiveDigits(r.codePostalEtablissement))
       IN /\ Len(last.cleaned) = Len(good)
          /\ \A i \in 1..Len(good) :
                /\ last.cleaned[i].siret = good[i].siret
                /\ last.cleaned[i].ingested_at = good[i].ingested_at
                /\ last.cleaned[i].codePostalEtablissement =
                      TrimOf(good[i].codePostalEtablissement)
          /\ last.dropped = Len(last.extracted) - Len(good)

\* a batch with a padded code, which is kept trimmed, and a malformed code,
\* which is dropped and counted
C27_Witness ==
    /\ last.op = "silver" /\ dataset_name = "etablissements"
    /\ last.stage = "write" /\ last.result = "ok"
    /\ Len(last.extracted) = 2 /\ last.dropped = 1
    /\ \E i \in 1..2 : last.extracted[i].codePostalEtablissement = CP_PADDED
    /\ Len(last.cleaned) = 1
    /\ last.cleaned[1].codePostalEtablissement = <<"9", "3", "1", "0", "0">>

\* the place of a layer in the sequence of the run
LayerRank(layer) ==
    IF layer = "bronze" THEN 1 ELSE IF layer = "silver" THEN 2 ELSE 3

\* C28: in the sequence of job calls of a pipeline run no Bronze call comes
\* after a Silver call, no Bronze or Silver call after the Gold call, and
\* Gold is called at most once.
C28_LayersInSequence ==
    /\ \A j, k \in 1..Len(run.log) :
          j < k => LayerRank(run.log[j].layer) <= LayerRank(run.log[k].layer)
    /\ Cardinality(GoldCalls) <= 1

\* a finished run with two Bronze calls, two Silver calls and the Gold call
C28_Witness ==
    /\ run.pc = "done"
    /\ Len(run.log) = 5
    /\ run.log[2].layer = "bronze" /\ run.log[3].layer = "silver"
    /\ run.log[5].layer = "gold"

\* the row passes the regional filter and the cleaning rules, and what the
\* cleaning makes of it is accepted by the schema
PassesRules(r) ==
    LET c == Cleaned(Extracted(<<r>>, SENTINEL, dataset_name, target_depts),
                     dataset_name)
    IN c # <<>> /\ SchemaValid(c, dataset_name)

\* C29: after a successful Silver run, every row of the Bronze export that
\* passes the regional filter and the cleaning rules (and is well-formed
\* for the schema) has its key in the Silver snapshot.
C29_NoRecordSkipped ==
    (/\ last.op = "silver" /\ last.result = "ok"
     /\ bronze_file.readable /\ silver_file.readable)
    => \A i \in 1..Len(bronze_file.rows) :
          PassesRules(bronze_file.rows[i])
             => bronze_file.rows[i][pk] \in KeysOf(silver_file.rows)

\* C30: a run_ingestion_bronze call that raises leaves the registry table
\* with the rows it had before the call.
C30_FailedBronzeLeavesRegistry ==
    [][(/\ calls' = calls + 1
        /\ last'.op = "bronze" /\ last'.result = "raise")
       => registry' = registry]_vars

====
